---- MODULE Spec2Model ----
(***************************************************************************)
(* AppRun desktop-integration daemon (main.py): the reconciliation pass    *)
(* perform_sync_cycle, the atomic writer, the registry store, the          *)
(* descriptor generator and the two scheduling backends.                   *)
(*                                                                         *)
(* Text (file contents, paths, property values) is a sequence of symbols:  *)
(* a symbol is a separator ("/", "$"), a word or a run of literal text.    *)
(* str.replace, os.path.join and the comparisons of the code act on these  *)
(* sequences the way they act on Python strings.                           *)
(***************************************************************************)
EXTENDS Integers, Sequences, FiniteSets, TLC

\* ------------------------------------------------------------------ bounds

\* Filesystem changes (appear / disappear / rename / property edits) per run.
MaxEnvOps == 2
\* Reconciliation passes per run.
MaxPasses == 3

\* ------------------------------------------------------------------ text

SetOf(s) == {s[i] : i \in 1..Len(s)}

IsPrefix(p, s) == Len(p) <= Len(s) /\ SubSeq(s, 1, Len(p)) = p

RECURSIVE Replace(_, _, _)
\* str.replace(old, new): every non-overlapping occurrence, left to right.
Replace(s, old, new) ==
    IF Len(s) < Len(old) \/ old = <<>> THEN s
    ELSE IF IsPrefix(old, s)
         THEN new \o Replace(SubSeq(s, Len(old) + 1, Len(s)), old, new)
         ELSE <<Head(s)>> \o Replace(Tail(s), old, new)

Contains(s, pat) ==
    \E i \in 1..(Len(s) - Len(pat) + 1) : SubSeq(s, i, i + Len(pat) - 1) = pat

RECURSIVE UniversalNewlines(_)
\* "\r\n" and a lone "\r" become "\n".  A carriage return of a text is the
\* symbol "\r"; no other symbol holds one.
UniversalNewlines(data) ==
    IF data = <<>> THEN <<>>
    ELSE IF Head(data) = "\r"
    THEN IF Len(data) > 1 /\ data[2] = "\n"
         THEN <<"\n">> \o UniversalNewlines(Tail(Tail(data)))
         ELSE <<"\n">> \o UniversalNewlines(Tail(data))
    ELSE <<Head(data)>> \o UniversalNewlines(Tail(data))

\* What f.read() returns for a file opened with open(path, "r"): the text
\* with universal newlines (the text itself when it has no "\r").
ReadText(data) ==
    IF \A i \in 1..Len(data) : data[i] # "\r" THEN data
    ELSE UniversalNewlines(data)

\* os.linesep on the daemon's platform (Linux).
linesep == <<"\n">>

\* What f.write(text) puts in a file opened with os.fdopen(fd, "w"): every
\* "\n" becomes os.linesep, nothing else changes.
WriteText(text) ==
    IF linesep = <<"\n">> THEN text ELSE Replace(text, <<"\n">>, linesep)

\* The order of Python's string comparison on the symbols the model uses.
SymOrder ==
    <<"..", ".desktop", ".local", "/", "Bar", "Foo", "alice", "applications",
      "bar", "foo", "home", "share", "usr">>

SymRank(x) == IF \E i \in 1..Len(SymOrder) : SymOrder[i] = x
              THEN CHOOSE i \in 1..Len(SymOrder) : SymOrder[i] = x
              ELSE 0

RECURSIVE StrLess(_, _)
StrLess(a, b) ==
    IF b = <<>> THEN FALSE
    ELSE IF a = <<>> THEN TRUE
    ELSE IF Head(a) = Head(b) THEN StrLess(Tail(a), Tail(b))
    ELSE SymRank(Head(a)) < SymRank(Head(b))

RECURSIVE Sorted(_)
\* sorted(S) of a set of strings.
Sorted(S) ==
    IF S = {} THEN <<>>
    ELSE LET m == CHOOSE x \in S : \A y \in S \ {x} : StrLess(x, y)
         IN  <<m>> \o Sorted(S \ {m})

\* ------------------------------------------------------------------ CONFIG

BaseDirectory == <<"/", "home">>
ApplicationsDirectory == <<"applications">>
GlobalApplicationProbeTargets ==
    << <<"/", "applications">>,
       <<"/", "opt", "/", "applications">>,
       <<"/", "opt", "/", "aisp", "/", "sys", "/", "applications">>,
       <<"/", "opt", "/", "aisp", "/", "applications">> >>
\* InotifyDebounceSeconds, in the model's clock ticks.
InotifyDebounceSeconds == 1
\* ProbingIntervalSeconds.
ProbingIntervalSeconds == 3

\* os.path.join(a, b): b alone when it is absolute.
PathJoin(a, b) ==
    IF b # <<>> /\ Head(b) = "/" THEN b
    ELSE IF a # <<>> /\ a[Len(a)] = "/" THEN a \o b
    ELSE a \o <<"/">> \o b

\* ------------------------------------------------------------------ template

Tok(k) == <<"$", k, "$">>

Template ==
    <<"\n[Desktop Entry]\nVersion=">> \o Tok("Version")
    \o <<"\nName=">> \o Tok("Name")
    \o <<"\nComment=">> \o Tok("Comment")
    \o <<"\nExec=/usr/local/sbin/apprun.sh \"">> \o Tok("BundlePath")
    \o <<"\" ">> \o Tok("Args")
    \o <<"\nIcon=">> \o Tok("Icon.png")
    \o <<"\nTerminal=">> \o Tok("Terminal")
    \o <<"\nType=">> \o Tok("Type")
    \o <<"\nCategories=">> \o Tok("Categories")
    \o <<";\n">>

\* The fallbacks dict of generate_desktop_entry, in its insertion order.
fallbacks ==
    << <<"Version", <<"1.0">> >>,
       <<"Comment", <<>> >>,
       <<"Args", <<>> >>,
       <<"Icon.png", <<"/usr/share/AppRun/unknown-app-icon.png">> >>,
       <<"Terminal", <<"false">> >>,
       <<"Type", <<"Application">> >>,
       <<"Categories", <<"Utility">> >> >>

RECURSIVE ReplaceAll(_, _)
\* for key, value in d.items(): content = content.replace(f"${key}$", value)
ReplaceAll(content, items) ==
    IF items = <<>> THEN content
    ELSE ReplaceAll(Replace(content, Tok(Head(items)[1]), Head(items)[2]),
                    Tail(items))

\* property_dict is the sequence of its (key, value) items in dict order.
generate_desktop_entry(property_dict) ==
    ReplaceAll(ReplaceAll(Template, property_dict), fallbacks)

\* ------------------------------------------------------------------ filesystem

\* The entries of BaseDirectory, in os.scandir order.
UserList == <<"alice">>
UsersAll == SetOf(UserList)
UserHome(u) == PathJoin(BaseDirectory, <<u>>)
\* os.path.join(base_dir, entry.name, append_dir) of get_all_user_dirs
UserBundleDir(u) == PathJoin(UserHome(u), ApplicationsDirectory)
\* os.path.join("/home", username, ".local", "share", "applications")
UserAppsDir(u) ==
    PathJoin(PathJoin(PathJoin(PathJoin(<<"/", "home">>, <<u>>), <<".local">>),
                      <<"share">>), <<"applications">>)
SystemAppsDir == <<"/", "usr", "/", "share", "/", "applications">>

\* The directories a pass may scan.
ScanDirs ==
    SetOf(GlobalApplicationProbeTargets) \cup {UserBundleDir(u) : u \in UsersAll}

\* The candidate bundle directories of the model, in os.scandir order, each
\* with the directory that holds it.
CandidateDirs ==
    << [path |-> <<"/", "applications", "/", "bar">>,
        parent |-> <<"/", "applications">>],
       [path |-> <<"/", "applications", "/", "foo">>,
        parent |-> <<"/", "applications">>],
       [path |-> <<"/", "home", "/", "alice", "/", "applications", "/", "foo">>,
        parent |-> <<"/", "home", "/", "alice", "/", "applications">>] >>

BundlePaths == {CandidateDirs[i].path : i \in 1..Len(CandidateDirs)}
ParentDir(b) ==
    CandidateDirs[CHOOSE i \in 1..Len(CandidateDirs) :
                    CandidateDirs[i].path = b].parent

\* Values of the Name property file (stripped); <<>> is the empty string.
NameValues == {<<"Foo">>, <<"Bar">>}

\* A bundle directory: whether it exists, whether apprunutil.sh BundleInfo
\* exits 0 on it, and the Name file of its AppRunMeta/DesktopLink directory
\* (the one property file the bundles of the model hold).
NoBundle ==
    [exists |-> FALSE, valid |-> FALSE, hasName |-> FALSE, name |-> <<>>]

\* A directory the validator rejects is modelled without property files:
\* the daemon never reads them.
BundleStates ==
    {NoBundle} \cup
    [exists : {TRUE}, valid : BOOLEAN, hasName : {FALSE}, name : {<<>>}] \cup
    [exists : {TRUE}, valid : {TRUE}, hasName : {TRUE}, name : NameValues]

\* The property sets build_property_dict can return in the model, and the
\* descriptor text of each (generate_desktop_entry, computed once).
PropertyDicts ==
    {<< <<"BundlePath", b>> >> \o n :
        b \in BundlePaths,
        n \in {<<>>} \cup {<< <<"Name", v>> >> : v \in NameValues}}
DescriptorText == [d \in PropertyDicts |-> generate_desktop_entry(d)]

\* A file of a descriptor destination directory.
NoFile == [present |-> FALSE, content |-> <<>>, mode |-> 0, owner |-> "root"]
File(content, mode, owner) ==
    [present |-> TRUE, content |-> content, mode |-> mode, owner |-> owner]

DestDirs == {SystemAppsDir} \cup {UserAppsDir(u) : u \in UsersAll}
DescPaths ==
    {PathJoin(d, n \o <<".desktop">>) : d \in DestDirs, n \in NameValues}

\* ------------------------------------------------------------------ faults

(* One system call may fail in a pass.  A fault names the call:             *)
(*   props     the validator cannot be run on bundle `at` (subprocess.run   *)
(*             raises)                                                      *)
(*   scandir   os.scandir(at) raises                                        *)
(*   write     write_if_changed to the descriptor of bundle `at` fails at   *)
(*             `step` (mkstemp, write, replace, chmod)                      *)
(*   chown     os.chown of the descriptor of bundle `at` raises             *)
(*   ensure    ensure_user_applications_dir fails for the owner of `at`     *)
(*   mkdir     get_all_user_dirs cannot create or chown the directory `at`  *)
(*   remove    os.remove(at) raises an error other than FileNotFoundError   *)
(*   save      save_registry fails at `step` (mkstemp, write, replace)      *)
NoFault == [kind |-> "none", at |-> <<>>, step |-> "none"]
WriteSteps == {"mkstemp", "write", "replace", "chmod"}
SaveSteps == {"mkstemp", "write", "replace"}
Faults ==
    {NoFault}
    \cup [kind : {"props", "chown", "ensure"}, at : BundlePaths, step : {"none"}]
    \cup [kind : {"scandir"}, at : ScanDirs, step : {"none"}]
    \cup [kind : {"mkdir"}, at : {UserBundleDir(u) : u \in UsersAll}, step : {"none"}]
    \cup [kind : {"write"}, at : BundlePaths, step : WriteSteps]
    \cup [kind : {"remove"}, at : DescPaths, step : {"none"}]
    \cup [kind : {"save"}, at : {<<>>}, step : SaveSteps]

\* The faults that change what a pass does in the given state: the others
\* name a call the pass does not make, or one that fails anyway.
Applicable(f, dsk, ds, bnd) ==
    CASE f.kind = "none" -> TRUE
      [] f.kind = "save" -> TRUE
      [] f.kind = "scandir" ->
            f.at \in ds \/ f.at \notin SetOf(GlobalApplicationProbeTargets)
      [] f.kind = "mkdir" -> f.at \notin ds
      [] f.kind = "props" -> bnd[f.at].exists
      [] f.kind = "write" -> bnd[f.at].valid /\ bnd[f.at].hasName
      [] f.kind = "chown" -> bnd[f.at].valid /\ bnd[f.at].hasName
                             /\ ParentDir(f.at) \notin SetOf(GlobalApplicationProbeTargets)
      [] f.kind = "ensure" -> bnd[f.at].exists
                              /\ ParentDir(f.at) \notin SetOf(GlobalApplicationProbeTargets)
      [] f.kind = "remove" -> dsk[f.at].present

\* ------------------------------------------------------------------ registry

\* A registry entry: ok is FALSE for a JSON value that is not an object
\* (entry.get raises AttributeError); files is its "desktop_files" list.
Entry(files) == [ok |-> TRUE, files |-> files]
BadEntry == [ok |-> FALSE, files |-> <<>>]

EmptyRegistry == [b \in {} |-> Entry(<<>>)]

RegPut(reg, b, e) ==
    [k \in DOMAIN reg \cup {b} |-> IF k = b THEN e ELSE reg[k]]
RegPop(reg, b) == [k \in DOMAIN reg \ {b} |-> reg[k]]

\* json.dumps(registry, indent=2, sort_keys=True): the items in key order.
Dumps(reg) ==
    LET keys == Sorted(DOMAIN reg)
    IN  [i \in 1..Len(keys) |-> <<keys[i], reg[keys[i]]>>]

\* json.load of a text that holds a JSON object.
Loads(text) ==
    [k \in {text[i][1] : i \in 1..Len(text)} |->
        (text[CHOOSE i \in 1..Len(text) : text[i][1] = k])[2]]

\* The registry file: missing, unparseable, a JSON value that is no object,
\* or the text of a JSON object.
RegFile(kind, text) == [kind |-> kind, text |-> text]

load_registry(file) ==
    IF file.kind = "dict" THEN Loads(file.text) ELSE EmptyRegistry

NoCache == [set |-> FALSE, text |-> <<>>]

\* save_registry with the cache set before os.replace has run.
save_registry_CacheFirst(reg, file, lastSaved, f) ==
    LET current_json == Dumps(reg)
    IN  IF lastSaved.set /\ lastSaved.text = current_json
        THEN [file |-> file, cache |-> lastSaved, exc |-> FALSE, wrote |-> FALSE]
        ELSE IF f.kind = "save"
        THEN [file |-> file, cache |-> [set |-> TRUE, text |-> current_json],
              exc |-> TRUE, wrote |-> FALSE]
        ELSE [file |-> RegFile("dict", current_json),
              cache |-> [set |-> TRUE, text |-> current_json],
              exc |-> FALSE, wrote |-> TRUE]

\* Returns the file, the cache and whether an exception leaves the call.
save_registry(reg, file, lastSaved, f) ==
    LET current_json == Dumps(reg)
    IN  IF lastSaved.set /\ lastSaved.text = current_json
        THEN [file |-> file, cache |-> lastSaved, exc |-> FALSE, wrote |-> FALSE]
        ELSE IF f.kind = "save"
        THEN [file |-> file, cache |-> lastSaved, exc |-> TRUE, wrote |-> FALSE]
        ELSE [file |-> RegFile("dict", current_json),
              cache |-> [set |-> TRUE, text |-> current_json],
              exc |-> FALSE, wrote |-> TRUE]

\* ------------------------------------------------------------------ writer

\* Returns the files, the path os.remove removed and the path it failed on
\* with an error other than FileNotFoundError (a warning is printed).
remove_file_safely(dsk, path, f) ==
    IF path \in DOMAIN dsk /\ dsk[path].present
    THEN IF f.kind = "remove" /\ f.at = path
         THEN [disk |-> dsk, removed |-> {}, failed |-> {path}]
         ELSE [disk |-> [dsk EXCEPT ![path] = NoFile], removed |-> {path},
               failed |-> {}]
    ELSE [disk |-> dsk, removed |-> {}, failed |-> {}]

\* Returns the files, whether os.replace ran, and whether an exception
\* leaves the call; failStep is the step that fails ("none": no failure).
write_if_changed(dsk, path, content, mode, failStep) ==
    IF dsk[path].present /\ ReadText(dsk[path].content) = content
    THEN [disk |-> dsk, wrote |-> {}, exc |-> FALSE]
    ELSE IF failStep \in {"mkstemp", "write", "replace"}
    THEN [disk |-> dsk, wrote |-> {}, exc |-> TRUE]
    ELSE IF failStep = "chmod"
    THEN [disk |-> [dsk EXCEPT ![path] = File(WriteText(content), 384, "root")],
          wrote |-> {path}, exc |-> TRUE]
    ELSE [disk |-> [dsk EXCEPT ![path] = File(WriteText(content), mode, "root")],
          wrote |-> {path}, exc |-> FALSE]

\* ------------------------------------------------------------------ pass

\* Returns None (ok FALSE) when the validator exits non-zero, else the
\* items of props in insertion order: BundlePath, then the property files.
build_property_dict(apprun_path, b) ==
    IF ~(b.exists /\ b.valid) THEN [ok |-> FALSE, items |-> <<>>]
    ELSE [ok |-> TRUE,
          items |-> << <<"BundlePath", apprun_path>> >>
                    \o (IF b.hasName THEN << <<"Name", b.name>> >> ELSE <<>>)]

HasKey(items, k) == \E i \in 1..Len(items) : items[i][1] = k
ValueOf(items, k) == items[CHOOSE i \in 1..Len(items) : items[i][1] = k][2]

\* current_links[b].add(p) on a defaultdict(set), kept in insertion order.
LinksAdd(links, b, p) ==
    IF \E i \in 1..Len(links) : links[i][1] = b
    THEN [i \in 1..Len(links) |->
            IF links[i][1] = b THEN <<b, links[i][2] \cup {p}>> ELSE links[i]]
    ELSE Append(links, <<b, {p}>>)

\* The state a pass threads through its steps: the descriptor files, the
\* existing directories, the registry file and the cache (and whether the
\* pass wrote the file), current_links, observed_bundles,
\* scanned_directories, the registry, the paths os.replace wrote, the
\* paths os.remove removed and those it failed on, and whether an exception
\* is propagating.
PassState(reg, dsk, ds, file, lastSaved) ==
    [registry |-> reg, disk |-> dsk, dirs |-> ds, file |-> file,
     cache |-> lastSaved, saved |-> FALSE, links |-> <<>>,
     observed |-> {}, scanned |-> <<>>, wrote |-> {}, removed |-> {},
     failed |-> {}, exc |-> FALSE]

\* desktop_file = os.path.join(dest_dir, f"{props.get('Name', 'App')}.desktop")
\* for props that hold "Name".
desktop_file_of(dest_dir, items) ==
    PathJoin(dest_dir, ValueOf(items, "Name") \o <<".desktop">>)

process_bundle(st, apprun_path, dest_dir, username, bnd, f) ==
    IF f.kind = "props" /\ f.at = apprun_path THEN [st EXCEPT !.exc = TRUE]
    ELSE
    LET props == build_property_dict(apprun_path, bnd[apprun_path])
    IN  IF ~props.ok THEN st
        ELSE
        LET st1 == [st EXCEPT !.observed = @ \cup {apprun_path}]
        IN  IF ~HasKey(props.items, "Name") THEN st1
            ELSE
            LET content == DescriptorText[props.items]
                desktop_file == desktop_file_of(dest_dir, props.items)
                w == write_if_changed(st1.disk, desktop_file, content, 420,
                        IF f.kind = "write" /\ f.at = apprun_path
                        THEN f.step ELSE "none")
                owned ==
                    IF username # "" /\ ~(f.kind = "chown" /\ f.at = apprun_path)
                    THEN [w.disk EXCEPT ![desktop_file].owner = username]
                    ELSE w.disk
            IN  IF w.exc
                THEN [st1 EXCEPT !.disk = w.disk, !.wrote = @ \cup w.wrote,
                                 !.exc = TRUE]
                ELSE [st1 EXCEPT !.disk = owned, !.wrote = @ \cup w.wrote,
                                 !.links = LinksAdd(@, apprun_path, desktop_file)]

\* The directory entries of `dir` that are directories, in scandir order.
EntriesOf(dir, bnd) ==
    SelectSeq([i \in 1..Len(CandidateDirs) |-> CandidateDirs[i]],
              LAMBDA c : c.parent = dir /\ bnd[c.path].exists)

RECURSIVE ScanEntries(_, _, _, _, _, _)
\* for entry in os.scandir(target): if entry.is_dir(): process_bundle(...)
\* For a user target, ensure_user_applications_dir runs before each bundle.
ScanEntries(st, entries, dest_dir, username, bnd, f) ==
    IF entries = <<>> \/ st.exc THEN st
    ELSE LET e == Head(entries).path
             st1 == IF username # "" /\ f.kind = "ensure" /\ f.at = e
                    THEN st
                    ELSE process_bundle(st, e, dest_dir, username, bnd, f)
         IN  ScanEntries(st1, Tail(entries), dest_dir, username, bnd, f)

RECURSIVE ScanGlobalTargets(_, _, _, _)
\* 1. Identify Global Targets
ScanGlobalTargets(st, targets, bnd, f) ==
    IF targets = <<>> \/ st.exc THEN st
    ELSE LET target == Head(targets)
             st1 ==
                IF target \notin st.dirs THEN st
                ELSE IF f.kind = "scandir" /\ f.at = target
                THEN [st EXCEPT !.scanned = Append(@, target), !.exc = TRUE]
                ELSE ScanEntries([st EXCEPT !.scanned = Append(@, target)],
                                 EntriesOf(target, bnd), SystemAppsDir, "", bnd, f)
         IN  ScanGlobalTargets(st1, Tail(targets), bnd, f)

RECURSIVE get_all_user_dirs(_, _, _)
\* Returns the existing directories and user_dirs as a sequence of
\* (username, user_dir) in insertion order.
get_all_user_dirs(ds, users, f) ==
    IF BaseDirectory \notin ds \/ users = <<>>
    THEN [dirs |-> ds, user_dirs |-> <<>>]
    ELSE LET u == Head(users)
             user_dir == UserBundleDir(u)
             here ==
                IF UserHome(u) \notin ds THEN [dirs |-> ds, user_dirs |-> <<>>]
                ELSE IF user_dir \in ds
                THEN [dirs |-> ds, user_dirs |-> << <<u, user_dir>> >>]
                ELSE IF f.kind = "mkdir" /\ f.at = user_dir
                THEN [dirs |-> ds, user_dirs |-> <<>>]
                ELSE [dirs |-> ds \cup {user_dir},
                      user_dirs |-> << <<u, user_dir>> >>]
             rest == get_all_user_dirs(here.dirs, Tail(users), f)
         IN  [dirs |-> rest.dirs, user_dirs |-> here.user_dirs \o rest.user_dirs]

RECURSIVE ScanUserTargets(_, _, _, _)
\* 2. Identify User Targets
ScanUserTargets(st, user_dirs, bnd, f) ==
    IF user_dirs = <<>> \/ st.exc THEN st
    ELSE LET username == Head(user_dirs)[1]
             apprun_dir == Head(user_dirs)[2]
             st1 ==
                IF f.kind = "scandir" /\ f.at = apprun_dir
                THEN [st EXCEPT !.scanned = Append(@, apprun_dir), !.exc = TRUE]
                ELSE ScanEntries([st EXCEPT !.scanned = Append(@, apprun_dir)],
                                 EntriesOf(apprun_dir, bnd), UserAppsDir(username),
                                 username, bnd, f)
         IN  ScanUserTargets(st1, Tail(user_dirs), bnd, f)

RECURSIVE RemoveAll(_, _, _)
\* for path in paths: remove_file_safely(path)
RemoveAll(st, paths, f) ==
    IF paths = {} THEN st
    ELSE LET path == CHOOSE x \in paths : TRUE
             r == remove_file_safely(st.disk, path, f)
         IN  RemoveAll([st EXCEPT !.disk = r.disk, !.removed = @ \cup r.removed,
                                  !.failed = @ \cup r.failed],
                       paths \ {path}, f)

RECURSIVE CleanupStaleLinks_Sweep(_, _, _)
\* Step 3 taking for stale every descriptor of the destination directories
\* that the bundle did not produce, registered or not.
CleanupStaleLinks_Sweep(st, links, f) ==
    IF links = <<>> \/ st.exc THEN st
    ELSE LET bundle == Head(links)[1]
             links_now == Head(links)[2]
         IN  IF bundle \in DOMAIN st.registry /\ ~st.registry[bundle].ok
             THEN [st EXCEPT !.exc = TRUE]
             ELSE
             LET st1 == RemoveAll(st, DOMAIN st.disk \ links_now, f)
                 st2 == [st1 EXCEPT !.registry =
                            RegPut(@, bundle, Entry(Sorted(links_now)))]
             IN  CleanupStaleLinks_Sweep(st2, Tail(links), f)

RECURSIVE CleanupStaleLinks(_, _, _)
\* 3. Cleanup Stale Links (Bundle exists, but specific link is gone)
CleanupStaleLinks(st, links, f) ==
    IF links = <<>> \/ st.exc THEN st
    ELSE LET bundle == Head(links)[1]
             links_now == Head(links)[2]
         IN  IF bundle \in DOMAIN st.registry /\ ~st.registry[bundle].ok
             THEN [st EXCEPT !.exc = TRUE]
             ELSE
             LET prev == IF bundle \in DOMAIN st.registry
                         THEN SetOf(st.registry[bundle].files) ELSE {}
                 stale == prev \ links_now
                 st1 == RemoveAll(st, stale, f)
                 st2 == [st1 EXCEPT !.registry =
                            RegPut(@, bundle, Entry(Sorted(links_now)))]
             IN  CleanupStaleLinks(st2, Tail(links), f)

RECURSIVE CleanupRemovedBundles_NoPop(_, _, _)
\* Step 4 without `registry.pop(bundle, None)`: the files are removed and
\* the key stays.
CleanupRemovedBundles_NoPop(st, removed_bundles, f) ==
    IF removed_bundles = <<>> \/ st.exc THEN st
    ELSE LET bundle == Head(removed_bundles)
         IN  IF ~st.registry[bundle].ok THEN [st EXCEPT !.exc = TRUE]
             ELSE CleanupRemovedBundles_NoPop(
                      RemoveAll(st, SetOf(st.registry[bundle].files), f),
                      Tail(removed_bundles), f)

RECURSIVE CleanupRemovedBundles(_, _, _)
\* 4. Cleanup Removed Bundles (Bundle completely gone); removed_bundles is
\* the sequence in which the loop visits the set.
CleanupRemovedBundles(st, removed_bundles, f) ==
    IF removed_bundles = <<>> \/ st.exc THEN st
    ELSE LET bundle == Head(removed_bundles)
         IN  IF ~st.registry[bundle].ok THEN [st EXCEPT !.exc = TRUE]
             ELSE
             LET st1 == RemoveAll(st, SetOf(st.registry[bundle].files), f)
                 st2 == [st1 EXCEPT !.registry = RegPop(@, bundle)]
             IN  CleanupRemovedBundles(st2, Tail(removed_bundles), f)

\* The sequence of the members of S that `order` (a sequence holding them
\* all) visits first to last.
InOrder(S, order) == SelectSeq(order, LAMBDA x : x \in S)

\* for username, apprun_dir in user_apprun_dirs.items(): ud is what
\* get_all_user_dirs returned.
ScanUserDirs(st, ud, bnd, f) ==
    ScanUserTargets([st EXCEPT !.dirs = ud.dirs], ud.user_dirs, bnd, f)

\* 2. Identify User Targets, from get_all_user_dirs on.
ScanUsers(st, bnd, f) ==
    IF st.exc THEN st
    ELSE ScanUserDirs(st, get_all_user_dirs(st.dirs, UserList, f), bnd, f)

\* Step 4 of the pass on the state step 3 left; `order` is the order in
\* which Python iterates the set removed_bundles.
RemovedBundles(st, f, order) ==
    CleanupRemovedBundles(st, InOrder(DOMAIN st.registry \ st.observed, order), f)

\* Steps 3 and 4 of the pass.
Cleanup(st, f, order) ==
    RemovedBundles(CleanupStaleLinks(st, st.links, f), f, order)

\* The pass state after save_registry returned sv.
Saved(st, sv) ==
    [st EXCEPT !.file = sv.file, !.cache = sv.cache, !.saved = sv.wrote,
               !.exc = sv.exc]

\* save_registry(registry) in a `finally:` around the pass: the registry is
\* saved also when an exception is leaving the pass.
Persist_Always(st, f) ==
    LET sv == save_registry(st.registry, st.file, st.cache, f)
    IN  [Saved(st, sv) EXCEPT !.exc = st.exc \/ sv.exc]

\* save_registry(registry) at the end of the pass.
Persist(st, f) ==
    IF st.exc THEN st
    ELSE Saved(st, save_registry(st.registry, st.file, st.cache, f))

\* One reconciliation pass with at most the fault f.  Returns the final
\* pass state: exc tells that an exception left the pass.
perform_sync_cycle(reg, dsk, ds, bnd, file, lastSaved, f, order) ==
    Persist(
        Cleanup(
            ScanUsers(
                ScanGlobalTargets(PassState(reg, dsk, ds, file, lastSaved),
                                  GlobalApplicationProbeTargets, bnd, f),
                bnd, f),
            f, order),
        f)

\* ------------------------------------------------------------------ state

VARIABLES
    bundles,    \* the candidate bundle directories and their property files
    dirs,       \* the existing directories among the scanned ones and /home
    disk,       \* the files of the descriptor destination directories
    regFile,    \* the registry file
    registry,   \* the daemon's in-memory registry
    cache,      \* _last_saved_registry_cache
    status,     \* "running", or "crashed" once an exception left a pass
    hist,       \* what the last pass did
    fresh,      \* no filesystem change since the last pass
    envOps,     \* filesystem changes so far
    wr,         \* a call of write_if_changed or save_registry, step by step
    gen,        \* a call of generate_desktop_entry
    ev          \* the event-driven backend: clock, handler, watches, the
                \* notifications queued, whether a change awaits a pass

\* The state of the reconciliation engine and of the filesystem it scans.
engine == <<bundles, dirs, disk, regFile, registry, cache, status, hist, fresh,
            envOps>>

vars == <<engine, wr, gen, ev>>

\* The destination directory and the owner of a candidate's descriptor.
IsGlobal(b) == ParentDir(b) \in SetOf(GlobalApplicationProbeTargets)
OwnerOf(b) == IF IsGlobal(b) THEN ""
              ELSE CHOOSE u \in UsersAll : UserBundleDir(u) = ParentDir(b)
DestOf(b) == IF IsGlobal(b) THEN SystemAppsDir ELSE UserAppsDir(OwnerOf(b))
DescriptorOf(b, n) == PathJoin(DestOf(b), n \o <<".desktop">>)

NoDisk == [p \in DescPaths |-> NoFile]

\* The descriptor an earlier run of the daemon wrote for bundle b named n.
EarlierFile(b, n) ==
    File(generate_desktop_entry(<< <<"BundlePath", b>>, <<"Name", n>> >>), 420,
         IF IsGlobal(b) THEN "root" ELSE OwnerOf(b))

\* The name of the descriptors an earlier run left behind.
EarlierName == <<"Foo">>

\* What a daemon may find at startup: a registry file that is missing,
\* unparseable, no JSON object, or an object with at most one bundle, whose
\* entry is no object, or lists one descriptor that is still there or
\* already gone.
InitStores ==
    {[file |-> RegFile(k, <<>>), disk |-> NoDisk] :
        k \in {"missing", "malformed", "notdict", "dict"}}
    \cup {[file |-> RegFile("dict", << <<b, BadEntry>> >>), disk |-> NoDisk] :
            b \in BundlePaths}
    \cup {[file |-> RegFile("dict",
                      << <<b, Entry(<<DescriptorOf(b, EarlierName)>>)>> >>),
           disk |-> IF there
                    THEN [NoDisk EXCEPT ![DescriptorOf(b, EarlierName)] =
                                EarlierFile(b, EarlierName)]
                    ELSE NoDisk] :
            b \in BundlePaths, there \in BOOLEAN}

\* No call of the writer in progress: the file at `path`, no temp file.
NoCall ==
    [fn |-> "none", pc |-> "idle", content |-> <<>>, mode |-> 0,
     dest |-> NoFile, tmp |-> NoFile, old |-> NoFile, cache |-> NoCache,
     made |-> FALSE, replaced |-> FALSE, chmodded |-> FALSE,
     failedAt |-> "none"]

\* No call of generate_desktop_entry yet: an empty property_dict, and no
\* descriptor path computed from it.
NoGen ==
    [property_dict |-> <<>>, doc |-> <<>>, done |-> FALSE,
     dest_dir |-> <<>>, desktop_file |-> <<>>]

\* No notification handled yet.
NoNote ==
    [seen |-> FALSE, name |-> <<>>, hidden |-> FALSE, now |-> 0,
     last_sync |-> 0, lastPass |-> 0, handlerPass |-> -1, syncAfter |-> 0,
     passes |-> 0, passesAfter |-> 0, watches |-> {}, watchesAfter |-> {}]

\* The event-driven backend not started.
NoEv ==
    [pc |-> "off", now |-> 0, last_sync |-> 0, watches |-> {},
     lastPass |-> 0, handlerPass |-> -1, pending |-> 0, stale |-> FALSE,
     note |-> NoNote]

NoHist ==
    [passes |-> 0, returned |-> FALSE, afterPass |-> FALSE, clean |-> FALSE,
     prevClean |-> FALSE,
     regBefore |-> EmptyRegistry, regAfter |-> EmptyRegistry,
     links |-> <<>>, observed |-> {},
     scanned |-> <<>>, wrote |-> {}, removed |-> {}, failed |-> {},
     saved |-> FALSE]

InitDirs ==
    {BaseDirectory, GlobalApplicationProbeTargets[1]}
    \cup {UserHome(u) : u \in UsersAll}

\* No bundle directory anywhere.
NoBundles == [b \in BundlePaths |-> NoBundle]

\* The daemon has started and loaded the registry file of one of `stores`;
\* bnd are the bundle directories of the system and ds the directories
\* that exist.
StartedIn(stores, bnd, ds) ==
    /\ bundles = bnd
    /\ dirs = ds
    /\ \E s \in stores : regFile = s.file /\ disk = s.disk
    /\ registry = load_registry(regFile)
    /\ cache = NoCache
    /\ status = "running"
    /\ hist = NoHist
    /\ fresh = FALSE
    /\ envOps = 0

StartedWith(stores, bnd) == StartedIn(stores, bnd, InitDirs)

Started(stores) == StartedWith(stores, NoBundles)

\* A first installation: no registry file and no descriptor yet.
EmptyStore == [file |-> RegFile("missing", <<>>), disk |-> NoDisk]

\* run_polling_loop after load_registry.
Init ==
    /\ Started(InitStores)
    /\ wr = NoCall
    /\ gen = NoGen
    /\ ev = NoEv

\* ------------------------------------------------------------------ filesystem changes

EnvChange ==
    /\ status = "running"
    /\ envOps < MaxEnvOps
    /\ envOps' = envOps + 1
    /\ fresh' = FALSE
    /\ UNCHANGED <<dirs, disk, regFile, registry, cache, status, hist>>
    /\ UNCHANGED <<wr, gen>>

\* The kernel's side of wm.add_watch(d, mask, rec=False): an entry of
\* directory d is created, deleted or moved.  While d is watched the event
\* is queued for the notifier, and the change awaits a pass.
Notify(d) ==
    ev' = IF ev.pc = "loop" /\ d \in ev.watches
          THEN [ev EXCEPT !.pending = @ + 1, !.stale = TRUE]
          ELSE ev

\* A bundle directory appears.
Appear(b, s) ==
    /\ EnvChange
    /\ ParentDir(b) \in dirs
    /\ ~bundles[b].exists /\ s.exists
    /\ bundles' = [bundles EXCEPT ![b] = s]
    /\ Notify(ParentDir(b))

\* A bundle directory is removed.
Disappear(b) ==
    /\ EnvChange
    /\ bundles[b].exists
    /\ bundles' = [bundles EXCEPT ![b] = NoBundle]
    /\ Notify(ParentDir(b))

\* A bundle directory is renamed within its directory, its files kept.
Rename(b, b2) ==
    /\ EnvChange
    /\ ParentDir(b) = ParentDir(b2)
    /\ bundles[b].exists /\ ~bundles[b2].exists
    /\ bundles' = [bundles EXCEPT ![b] = NoBundle, ![b2] = bundles[b]]
    /\ Notify(ParentDir(b))

\* The property files of a bundle, or the validator's verdict on it, change:
\* a change inside the bundle directory, which no watch covers (rec=False).
Edit(b, s) ==
    /\ EnvChange
    /\ bundles[b].exists /\ s.exists /\ s # bundles[b]
    /\ bundles' = [bundles EXCEPT ![b] = s]
    /\ UNCHANGED ev

\* ------------------------------------------------------------------ pass

RECURSIVE Perms(_)
Perms(S) ==
    IF S = {} THEN {<<>>}
    ELSE UNION {{<<x>> \o p : p \in Perms(S \ {x})} : x \in S}

\* The orders in which a pass may visit removed_bundles: every order where
\* the order decides the outcome (an entry that raises ends the loop).
AllOrders == Perms(BundlePaths)
SortedOrder == Sorted(BundlePaths)
Orders(reg) ==
    IF \E b \in DOMAIN reg : ~reg[b].ok THEN AllOrders ELSE {SortedOrder}

LinksFn(links) ==
    [b \in {links[i][1] : i \in 1..Len(links)} |->
        (links[CHOOSE i \in 1..Len(links) : links[i][1] = b])[2]]

\* registry, _ = perform_sync_cycle(registry), with at most the fault f; an
\* exception that leaves the pass leaves the caller too.
RunPass(f, order) ==
    /\ status = "running"
    /\ hist.passes < MaxPasses
    /\ \E r \in {perform_sync_cycle(registry, disk, dirs, bundles, regFile,
                                   cache, f, order)} :
           /\ registry' = r.registry
           /\ disk' = r.disk
           /\ dirs' = r.dirs
           /\ regFile' = r.file
           /\ cache' = r.cache
           /\ status' = IF r.exc THEN "crashed" ELSE "running"
           /\ hist' = [passes |-> hist.passes + 1, returned |-> ~r.exc,
                       afterPass |-> fresh, clean |-> f = NoFault,
                       prevClean |-> hist.clean,
                       regBefore |-> registry, regAfter |-> r.registry,
                       links |-> r.links, observed |-> r.observed,
                       scanned |-> r.scanned, wrote |-> r.wrote,
                       removed |-> r.removed, failed |-> r.failed,
                       saved |-> r.saved]
    /\ fresh' = TRUE
    /\ UNCHANGED <<bundles, envOps>>

\* One turn of the loop of run_polling_loop.
Pass(f, order) ==
    /\ RunPass(f, order)
    /\ UNCHANGED <<wr, gen, ev>>

Next ==
    \/ \E b \in BundlePaths, s \in BundleStates : Appear(b, s)
    \/ \E b \in BundlePaths : Disappear(b)
    \/ \E b, b2 \in BundlePaths : Rename(b, b2)
    \/ \E b \in BundlePaths, s \in BundleStates : Edit(b, s)
    \/ \E f \in {x \in Faults : Applicable(x, disk, dirs, bundles)} :
          \E order \in Orders(registry) : Pass(f, order)

Spec == Init /\ [][Next]_vars

\* The polling daemon on a first installation.
InitEmpty ==
    /\ Started({EmptyStore})
    /\ wr = NoCall
    /\ gen = NoGen
    /\ ev = NoEv

SpecEmpty == InitEmpty /\ [][Next]_vars

\* ------------------------------------------------------------------ properties

\* The state is the one a pass that returned has just left: hist tells what
\* that pass did and the bundles are those it scanned.
PassReturned == fresh /\ hist.returned

\* The descriptors the last pass produced for bundle b (current_links[b]).
ProducedFor(b) ==
    IF b \in DOMAIN LinksFn(hist.links) THEN LinksFn(hist.links)[b] ELSE {}

Present(p) == p \in DOMAIN disk /\ disk[p].present

\* C1: two passes back to back, no filesystem change and no failing call in
\* either: the second writes no descriptor, deletes none and returns the
\* registry the first returned.
C1_Idempotence ==
    (PassReturned /\ hist.afterPass /\ hist.clean /\ hist.prevClean)
        => /\ hist.wrote = {}
           /\ hist.removed = {}
           /\ hist.regAfter = hist.regBefore

\* C2: when a pass has returned, the files recorded for each bundle of the
\* registry are the descriptors the pass produced for it that are on disk,
\* and every recorded path is on disk.
C2_Convergence ==
    (PassReturned /\ hist.clean)
        => \A b \in DOMAIN registry :
              /\ SetOf(registry[b].files) = {p \in ProducedFor(b) : Present(p)}
              /\ \A p \in SetOf(registry[b].files) : Present(p)

\* C3: a bundle registered with descriptors that still validates but has no
\* Name any more: the pass deletes its descriptors and leaves it in the
\* registry with an empty file list.
C3_NameRemoved ==
    (PassReturned /\ hist.clean)
        => \A b \in DOMAIN hist.regBefore :
              (/\ hist.regBefore[b].ok /\ hist.regBefore[b].files # <<>>
               /\ bundles[b].exists /\ bundles[b].valid /\ ~bundles[b].hasName)
              => /\ \A p \in SetOf(hist.regBefore[b].files) : ~Present(p)
                 /\ b \in DOMAIN registry
                 /\ registry[b] = Entry(<<>>)

\* The bundles the registry held when the last pass began and the pass did
\* not observe.
Unobserved == DOMAIN hist.regBefore \ hist.observed

C5_NoOrphans ==
    status = "running"
        => \A p \in DescPaths :
              Present(p) => \E b \in DOMAIN registry : p \in SetOf(registry[b].files)

\* ------------------------------------------------------------------ the writer, step by step

\* The two functions that write through a temp file.
WriterFns == {"write_if_changed", "save_registry"}

\* Texts to write and to find on disk: Unix, DOS and old Mac line ends.
Texts ==
    {<<"a", "\n", "b">>, <<"a", "\r", "\n", "b">>, <<"a", "\r", "b">>}

\* Permission modes a caller may ask for: 0o644 and 0o755.
Modes == {420, 493}

\* The file tempfile.mkstemp creates: empty, mode 0o600.
TempFile(data) == File(data, 384, "root")

\* The file a call may find at `path`.
InitFiles == {NoFile} \cup {File(t, 420, "root") : t \in Texts}

\* The rest of the system while the writer is looked at alone.
Elsewhere ==
    /\ Started({EmptyStore})
    /\ gen = NoGen
    /\ ev = NoEv

InitWriter ==
    /\ Elsewhere
    /\ \E d \in InitFiles : wr = [NoCall EXCEPT !.dest = d]

\* A step of the writer leaves the rest alone.
WriterStep(next) ==
    /\ wr' = next
    /\ UNCHANGED <<engine, gen, ev>>

\* write_if_changed(path, content, mode) or save_registry(registry), where
\* content is json.dumps(registry), is called.
Call(fn, content, mode) ==
    /\ wr.pc = "idle"
    /\ WriterStep([NoCall EXCEPT !.fn = fn, !.pc = "compare",
                                 !.content = content, !.mode = mode,
                                 !.dest = wr.dest, !.old = wr.dest,
                                 !.cache = wr.cache])

\* The test that ends the call early: f.read() == content for
\* write_if_changed, _last_saved_registry_cache == current_json for
\* save_registry.
SameAsBefore ==
    IF wr.fn = "write_if_changed"
    THEN wr.dest.present /\ ReadText(wr.dest.content) = wr.content
    ELSE wr.cache.set /\ wr.cache.text = wr.content

Compare ==
    /\ wr.pc = "compare"
    /\ WriterStep([wr EXCEPT !.pc = IF SameAsBefore THEN "returned"
                                    ELSE "mkstemp"])

\* tempfile.mkstemp(prefix=..., dir=os.path.dirname(path)), before the try.
Mkstemp(ok) ==
    /\ wr.pc = "mkstemp"
    /\ WriterStep(IF ok
                  THEN [wr EXCEPT !.pc = "write", !.tmp = TempFile(<<>>),
                                  !.made = TRUE]
                  ELSE [wr EXCEPT !.pc = "raised", !.failedAt = "mkstemp"])

\* The text written to the file at `path` itself, with no temp file.
Write_InPlace(n, ok) ==
    /\ wr.pc = "write"
    /\ n <= Len(WriteText(wr.content))
    /\ ok => n = Len(WriteText(wr.content))
    /\ WriterStep([wr EXCEPT
          !.dest = File(SubSeq(WriteText(wr.content), 1, n), 384, "root"),
          !.pc = IF ok THEN "fsync" ELSE "finally",
          !.failedAt = IF ok THEN "none" ELSE "write"])

\* f.write(content); f.flush(): n symbols reach the temp file, all of them
\* when the step succeeds.
Write(n, ok) ==
    /\ wr.pc = "write"
    /\ n <= Len(WriteText(wr.content))
    /\ ok => n = Len(WriteText(wr.content))
    /\ WriterStep([wr EXCEPT
          !.tmp = TempFile(SubSeq(WriteText(wr.content), 1, n)),
          !.pc = IF ok THEN "fsync" ELSE "finally",
          !.failedAt = IF ok THEN "none" ELSE "write"])

\* os.fsync(f.fileno()), then the with block closes the file.
Fsync(ok) ==
    /\ wr.pc = "fsync"
    /\ WriterStep(IF ok THEN [wr EXCEPT !.pc = "replace"]
                  ELSE [wr EXCEPT !.pc = "finally", !.failedAt = "fsync"])

\* os.replace(tmp_path, path): the temp file takes the place of the file.
os_replace(ok) ==
    /\ wr.pc = "replace"
    /\ WriterStep(IF ok
                  THEN [wr EXCEPT !.dest = wr.tmp, !.tmp = NoFile,
                                  !.replaced = TRUE,
                                  !.pc = IF wr.fn = "write_if_changed"
                                         THEN "chmod" ELSE "setcache"]
                  ELSE [wr EXCEPT !.pc = "finally", !.failedAt = "replace"])

\* os.chmod(path, mode), write_if_changed only.
Chmod(ok) ==
    /\ wr.pc = "chmod"
    /\ WriterStep(IF ok
                  THEN [wr EXCEPT !.dest.mode = wr.mode, !.chmodded = TRUE,
                                  !.pc = "finally"]
                  ELSE [wr EXCEPT !.pc = "finally", !.failedAt = "chmod"])

\* _last_saved_registry_cache = current_json, save_registry only.
SetCache ==
    /\ wr.pc = "setcache"
    /\ WriterStep([wr EXCEPT !.cache = [set |-> TRUE, text |-> wr.content],
                             !.pc = "finally"])

\* finally: if os.path.exists(tmp_path): os.unlink(tmp_path); then the
\* call returns, or the exception goes on to the caller.
Finally ==
    /\ wr.pc = "finally"
    /\ WriterStep([wr EXCEPT !.tmp = NoFile,
                             !.pc = IF wr.failedAt = "none" THEN "returned"
                                    ELSE "raised"])

\* The caller goes on; the file and the cache stay as the call left them.
Return ==
    /\ wr.pc \in {"returned", "raised"}
    /\ WriterStep([NoCall EXCEPT !.dest = wr.dest, !.cache = wr.cache])

NextWriter ==
    \/ \E fn \in WriterFns, content \in Texts, mode \in Modes :
          Call(fn, content, mode)
    \/ Compare
    \/ \E ok \in BOOLEAN : Mkstemp(ok)
    \/ \E n \in 0..Len(WriteText(wr.content)), ok \in BOOLEAN : Write(n, ok)
    \/ \E ok \in BOOLEAN : Fsync(ok)
    \/ \E ok \in BOOLEAN : os_replace(ok)
    \/ \E ok \in BOOLEAN : Chmod(ok)
    \/ SetCache
    \/ Finally
    \/ Return

SpecWriter == InitWriter /\ [][NextWriter]_vars

\* C6: write_if_changed has returned.  If the file was there with the
\* content asked for, no temp file was made, the file was not replaced, its
\* mode not set again and it is as it was; otherwise the file now holds
\* exactly the content, with the mode asked for.
C6_WriteSuppression ==
    (wr.fn = "write_if_changed" /\ wr.pc = "returned")
        => IF wr.old.present /\ wr.old.content = wr.content
           THEN ~wr.made /\ ~wr.replaced /\ ~wr.chmodded /\ wr.dest = wr.old
           ELSE /\ wr.dest.present
                /\ wr.dest.content = wr.content
                /\ wr.dest.mode = wr.mode

MaxProps == 2

\* The placeholder names of Template.
Placeholders ==
    {"Version", "Name", "Comment", "BundlePath", "Args", "Icon.png",
     "Terminal", "Type", "Categories"}

\* Property names and values to draw from: names of the template with and
\* without a fallback and a name the template does not have; a plain
\* value, an empty one and one that reads like a placeholder.
GenKeys == {"Name", "BundlePath", "Comment", "Terminal", "Maintainer"}
GenValues == {<<"x">>, <<>>, Tok("Name")}

\* d[k] = v on a dict kept as the sequence of its items: a new key goes
\* last, a known key keeps its place.
DictSet(d, k, v) ==
    IF HasKey(d, k)
    THEN [i \in 1..Len(d) |-> IF d[i][1] = k THEN <<k, v>> ELSE d[i]]
    ELSE Append(d, <<k, v>>)

InitGen ==
    /\ Started({EmptyStore})
    /\ wr = NoCall
    /\ ev = NoEv
    /\ gen = NoGen

\* props[name] = value, as build_property_dict fills the dict.
SetProp(k, v) ==
    /\ ~gen.done
    /\ HasKey(gen.property_dict, k) \/ Len(gen.property_dict) < MaxProps
    /\ gen' = [gen EXCEPT !.property_dict = DictSet(@, k, v)]
    /\ UNCHANGED <<engine, wr, ev>>

\* content = generate_desktop_entry(props)
Generate ==
    /\ ~gen.done
    /\ gen' = [gen EXCEPT !.doc = generate_desktop_entry(gen.property_dict),
                          !.done = TRUE]
    /\ UNCHANGED <<engine, wr, ev>>

NextGen ==
    \/ \E k \in GenKeys, v \in GenValues : SetProp(k, v)
    \/ Generate

SpecGen == InitGen /\ [][NextGen]_vars

\* C8: the document generate_desktop_entry returns holds no placeholder of
\* the template, whatever the property_dict.
C8_NoPlaceholder ==
    gen.done => \A k \in Placeholders : ~Contains(gen.doc, Tok(k))

\* ------------------------------------------------------------------ the event-driven backend

\* Ticks of the clock a run of the event-driven backend may see.
MaxTicks == 2
\* Filesystem changes a run of the event-driven backend may see.
MaxWatchedOps == 1

\* time.time() when the daemon starts: seconds since 1970, far more than
\* the debounce interval.
StartTime == InotifyDebounceSeconds + 2

\* How long a pass may take, in ticks.
Durations == {0, 1}

\* The bundle installed before the event-driven daemon first starts.
Installed ==
    [NoBundles EXCEPT ![CandidateDirs[1].path] =
        [exists |-> TRUE, valid |-> TRUE, hasName |-> TRUE,
         name |-> EarlierName]]

\* A system where BaseDirectory does not exist: no user has a home.
NoHomeDirs == {GlobalApplicationProbeTargets[1]}

InitInotify ==
    /\ \E ds \in {InitDirs, NoHomeDirs} : StartedIn({EmptyStore}, Installed, ds)
    /\ wr = NoCall
    /\ gen = NoGen
    /\ ev = [NoEv EXCEPT !.pc = "boot", !.now = StartTime]

\* for d in current_watched: wm.add_watch(d, mask, rec=False)
add_watch(watches, scanned) == watches \cup SetOf(scanned)

\* run_inotify_loop up to notifier.loop(): the initial pass, the handler
\* with last_sync = 0, the watches on the scanned directories and on
\* BaseDirectory.  The pass takes dur ticks.
Watching(dur) ==
    IF status' = "crashed" THEN [ev EXCEPT !.pc = "dead"]
    ELSE [ev EXCEPT !.pc = "loop",
                    !.now = ev.now + dur,
                    !.last_sync = 0,
                    !.lastPass = ev.now + dur,
                    !.watches = add_watch({}, hist'.scanned)
                                \cup (IF BaseDirectory \in dirs'
                                      THEN {BaseDirectory} ELSE {})]

run_inotify_loop(f, order) ==
    /\ ev.pc = "boot"
    /\ RunPass(f, order)
    /\ \E dur \in Durations : ev' = Watching(dur)
    /\ UNCHANGED <<wr, gen>>

\* Time passes while notifier.loop() waits.
Tick ==
    /\ ev.pc = "loop"
    /\ status = "running"
    /\ ev.now < StartTime + MaxTicks
    /\ ev' = [ev EXCEPT !.now = ev.now + 1]
    /\ UNCHANGED <<engine, wr, gen>>

\* The test with >= in the place of >.
Elapsed_AtLeast(now, last_sync) == now - last_sync >= InotifyDebounceSeconds

\* now - self.last_sync > self.debounce_interval
Elapsed(now, last_sync) == now - last_sync > InotifyDebounceSeconds

\* Names of the directory entries the notifications are about.
EventNames == {<<"foo">>, <<".", "foo">>}

\* The test for the name's last character in the place of its first.
IsHiddenName_Suffix(name) == name # <<>> /\ name[Len(name)] = "."

\* event.name.startswith(".")
IsHiddenName(name) == IsPrefix(<<".">>, name)

\* What the handler did with the notification for `name`, and the clock,
\* the timestamps and the watches it found and left.
Note(name, syncAfter, passesAfter, watchesAfter) ==
    [seen |-> TRUE, name |-> name, hidden |-> IsHiddenName(name),
     now |-> ev.now,
     last_sync |-> ev.last_sync, lastPass |-> ev.lastPass,
     handlerPass |-> ev.handlerPass, syncAfter |-> syncAfter,
     passes |-> hist.passes, passesAfter |-> passesAfter,
     watches |-> ev.watches, watchesAfter |-> watchesAfter]

\* The notifier's queue after it handed one notification to the handler:
\* a queued event of a watched directory if there is one.
Dequeued == IF ev.pending > 0 THEN ev.pending - 1 ELSE 0

\* What the handler leaves when its pass is over, dur ticks after the
\* notification: the watches on the scanned directories and last_sync; an
\* exception of the pass leaves the handler and notifier.loop().
Synced(name, dur) ==
    IF status' = "crashed"
    THEN [ev EXCEPT !.pc = "dead",
                    !.pending = Dequeued,
                    !.stale = FALSE,
                    !.note = Note(name, ev.last_sync, hist'.passes,
                                  ev.watches)]
    ELSE [ev EXCEPT !.now = ev.now + dur,
                    !.watches = add_watch(@, hist'.scanned),
                    !.last_sync = ev.now + dur,
                    !.lastPass = ev.now + dur,
                    !.handlerPass = ev.now + dur,
                    !.pending = Dequeued,
                    !.stale = FALSE,
                    !.note = Note(name, ev.now + dur, hist'.passes,
                                  add_watch(ev.watches, hist'.scanned))]

\* EventHandler.process_default(event) for an event of a watched
\* directory whose entry is `name`: a queued change of a bundle directory
\* when the name is not hidden and one is queued, any other entry of the
\* directory else.  A pass it runs meets at most the fault f and takes
\* dur ticks.
process_default(name) ==
    /\ ev.pc = "loop"
    /\ status = "running"
    /\ ev.watches # {}
    /\ IF IsHiddenName(name)
       THEN /\ ev' = [ev EXCEPT !.note = Note(name, ev.last_sync, hist.passes,
                                             ev.watches)]
            /\ UNCHANGED engine
       ELSE IF Elapsed(ev.now, ev.last_sync)
       THEN \E f \in {x \in Faults : Applicable(x, disk, dirs, bundles)} :
               \E order \in Orders(registry) :
                  /\ RunPass(f, order)
                  /\ \E dur \in Durations :
                        /\ ev.now + dur <= StartTime + MaxTicks
                        /\ ev' = Synced(name, dur)
       ELSE /\ ev' = [ev EXCEPT !.pending = Dequeued,
                               !.note = Note(name, ev.last_sync, hist.passes,
                                             ev.watches)]
            /\ UNCHANGED engine
    /\ UNCHANGED <<wr, gen>>

NextInotify ==
    \/ \E f \in {x \in Faults : Applicable(x, disk, dirs, bundles)} :
          \E order \in Orders(registry) : run_inotify_loop(f, order)
    \/ Tick
    \/ \E name \in EventNames : process_default(name)
    \/ envOps < MaxWatchedOps
          /\ \E b \in BundlePaths, s \in BundleStates : Appear(b, s)
    \/ envOps < MaxWatchedOps /\ \E b \in BundlePaths : Disappear(b)
    \/ envOps < MaxWatchedOps /\ \E b, b2 \in BundlePaths : Rename(b, b2)
    \/ envOps < MaxWatchedOps
          /\ \E b \in BundlePaths, s \in BundleStates : Edit(b, s)

SpecInotify == InitInotify /\ [][NextInotify]_vars

\* The handler has just dealt with a notification whose name is not hidden.
Notified == ev.note.seen /\ ~ev.note.hidden

\* The handler ran no pass for the notification and left last_sync as it
\* was.
Dropped ==
    /\ ev.note.passesAfter = ev.note.passes
    /\ ev.note.syncAfter = ev.note.last_sync

\* The handler ran one pass for the notification.
RanPass == ev.note.passesAfter = ev.note.passes + 1

\* C9 as claimed: a notification that is not hidden runs a pass exactly
\* when more than the debounce interval has passed since the last pass
\* ended, the pass at startup counted; one that runs none leaves the
\* timestamp as it was.
C9_Debounce_Original ==
    Notified
        => /\ RanPass
                <=> ev.note.now - ev.note.lastPass > InotifyDebounceSeconds
           /\ ~RanPass => Dropped

\* C9 as amended: ... since the last pass the handler itself ran ended; the
\* pass at startup does not count, so the first such notification always
\* runs a pass.
C9_Debounce ==
    Notified
        => /\ RanPass
                <=> \/ ev.note.handlerPass < 0
                    \/ ev.note.now - ev.note.handlerPass > InotifyDebounceSeconds
           /\ ~RanPass => Dropped

\* A notification arrived within the debounce interval of a pass the
\* handler had run, and was dropped.
C9_Witness ==
    /\ Notified
    /\ Dropped
    /\ ev.note.handlerPass >= 0
    /\ ev.note.now - ev.note.handlerPass = InotifyDebounceSeconds

\* C14: a notification whose name begins with "." runs no pass, leaves the
\* last-pass timestamp and adds no watch, whatever the time since the last
\* pass.
C14_HiddenIgnored ==
    (ev.note.seen /\ ev.note.name # <<>> /\ Head(ev.note.name) = ".")
        => /\ ev.note.passesAfter = ev.note.passes
           /\ ev.note.syncAfter = ev.note.last_sync
           /\ ev.note.watchesAfter = ev.note.watches

\* A hidden name was notified when more than the debounce interval had
\* passed since a pass of the handler: a name that is not hidden would
\* have run a pass.
C14_Witness ==
    /\ ev.note.seen /\ ev.note.name # <<>> /\ Head(ev.note.name) = "."
    /\ ev.note.handlerPass >= 0
    /\ ev.note.now - ev.note.last_sync > InotifyDebounceSeconds

\* C16: once the daemon is in notifier.loop() the watch set holds every
\* directory the initial pass scanned and BaseDirectory; after a
\* notification that ran a pass it holds every directory that pass
\* scanned; registering watched directories again changes nothing; no
\* watch is removed.
C16_WatchCoverage ==
    [][/\ (ev.pc = "boot" /\ ev'.pc = "loop")
            => SetOf(hist'.scanned) \cup {BaseDirectory} \subseteq ev'.watches
       /\ (ev.pc = "loop" /\ hist'.passes = hist.passes + 1)
            => /\ SetOf(hist'.scanned) \subseteq ev'.watches
               /\ SetOf(hist'.scanned) \subseteq ev.watches
                    => ev'.watches = ev.watches
       /\ ev.pc = "loop" => ev.watches \subseteq ev'.watches]_vars

\* C11: a change of a watched directory is followed by a pass that starts
\* after it: once the notifier has no notification left to deliver, no
\* change is still waiting for its pass.
C11_EventualConvergence ==
    (ev.pc = "loop" /\ ev.pending = 0) => ~ev.stale

\* ------------------------------------------------------------------ the polling backend

\* C10: no pass of run_polling_loop ends the loop: the daemon is running
\* after every pass, also one in which a write, a scan or the save failed.
C10_LoopNeverStops ==
    status = "running"

\* ------------------------------------------------------------------ the registry store and the pass

\* C12: whatever registry file load_registry found, the pass that follows
\* it, when none of its calls fails, returns: the daemon is still running.
C12_LoadNeverFatal ==
    (hist.passes = 1 /\ hist.clean) => status = "running"

\* The paths the registry records, for whatever bundle.
Recorded(reg) == UNION {SetOf(reg[b].files) : b \in DOMAIN reg}

\* C18: no path the registry records when a pass returns was removed by
\* the cleanup steps of that pass.
C18_KeepsProduced ==
    (PassReturned /\ hist.clean) => Recorded(registry) \cap hist.removed = {}

\* C19: whenever _last_saved_registry_cache is set the registry file holds
\* it, and when a pass has returned the file holds the serialization of
\* the registry it returned, whether save_registry wrote or not.
C19_CacheMatchesDisk ==
    /\ cache.set => regFile = RegFile("dict", cache.text)
    /\ (hist.passes > 0 /\ hist.returned)
          => regFile = RegFile("dict", Dumps(registry))

\* A pass has returned without writing the registry file: save_registry
\* found the serialization equal to the cache.
C19_Witness ==
    /\ hist.passes > 1
    /\ hist.returned
    /\ ~hist.saved
    /\ cache.set

\* C20: every file a pass removed was listed in the registry the pass was
\* given.
C20_DeletesOnlyRecorded ==
    hist.passes > 0 => hist.removed \subseteq Recorded(hist.regBefore)

\* A pass removed a descriptor of a bundle it observed (the bundle now
\* produces another one) while a descriptor no bundle of the registry
\* lists stayed on disk.
C20_Witness ==
    /\ hist.passes > 0
    /\ \E b \in hist.observed \cap DOMAIN hist.regBefore :
          SetOf(hist.regBefore[b].files) \cap hist.removed # {}
    /\ \E p \in DescPaths : Present(p) /\ p \notin Recorded(hist.regBefore)

\* C15: the registry file changes only in a pass that ran to its end, which
\* writes it once, after every candidate and both cleanup steps: the new
\* file is the serialization of the registry the pass returned.  A pass that
\* an exception leaves part-way leaves the file as it was.
C15_PersistOrdering ==
    [][regFile' # regFile =>
          /\ hist'.saved /\ hist'.returned
          /\ regFile' = RegFile("dict", Dumps(registry'))]_vars

\* A pass with no failing system call changed the registry in memory and
\* then raised before save_registry: the file does not hold that registry.
C15_Witness ==
    /\ hist.passes > 0 /\ ~hist.returned /\ hist.clean
    /\ hist.regAfter # hist.regBefore
    /\ regFile # RegFile("dict", Dumps(hist.regAfter))

\* ------------------------------------------------------------------ failing sub-steps

\* The sub-steps a pass is to survive: a directory that cannot be created
\* (get_all_user_dirs, ensure_user_applications_dir), a chown that fails, a
\* descriptor write that fails at one of its system calls.
SubstepKinds == {"none", "mkdir", "chown", "ensure", "write"}
SubstepFaults == {f \in Faults : f.kind \in SubstepKinds}

\* The start states whose registry file holds well-formed entries only; a
\* listed descriptor may be missing already.
SubstepStores ==
    {s \in InitStores :
        \A b \in DOMAIN load_registry(s.file) : load_registry(s.file)[b].ok}

InitSubsteps ==
    /\ Started(SubstepStores)
    /\ wr = NoCall
    /\ gen = NoGen
    /\ ev = NoEv

\* The polling daemon where nothing fails but those sub-steps.
NextSubsteps ==
    \/ \E b \in BundlePaths, s \in BundleStates : Appear(b, s)
    \/ \E b \in BundlePaths : Disappear(b)
    \/ \E b, b2 \in BundlePaths : Rename(b, b2)
    \/ \E b \in BundlePaths, s \in BundleStates : Edit(b, s)
    \/ \E f \in {x \in SubstepFaults : Applicable(x, disk, dirs, bundles)} :
          Pass(f, SortedOrder)

SpecSubsteps == InitSubsteps /\ [][NextSubsteps]_vars

\* C13: a pass in which at most a validation, a directory creation, a chown
\* or a descriptor write fails, or a stale file is missing already, returns
\* and has persisted the registry it returns.
C13_SubstepsDoNotAbort ==
    hist.passes > 0 =>
        /\ hist.returned
        /\ regFile = RegFile("dict", Dumps(registry))

\* ------------------------------------------------------------------ the descriptor path

\* Values of the Name property: a plain name, names with a path separator,
\* with a '..' segment, an absolute one, and '..' itself.
DestNames ==
    {<<"Foo">>, <<"a", "/", "b">>, <<"..", "/", "x">>,
     <<"/", "etc", "/", "x">>, <<"..">>}

\* The index of the last "/" of p, 0 when it has none.
LastSlash(p) ==
    IF \E i \in 1..Len(p) : p[i] = "/"
    THEN CHOOSE i \in 1..Len(p) :
            p[i] = "/" /\ \A j \in (i + 1)..Len(p) : p[j] # "/"
    ELSE 0

RECURSIVE StripSlashes(_)
\* head.rstrip('/') unless head is slashes only.
StripSlashes(p) ==
    IF \A i \in 1..Len(p) : p[i] = "/" THEN p
    ELSE IF p[Len(p)] = "/" THEN StripSlashes(SubSeq(p, 1, Len(p) - 1))
    ELSE p

\* os.path.dirname(p) and os.path.basename(p).
Dirname(p) == StripSlashes(SubSeq(p, 1, LastSlash(p)))
Basename(p) == SubSeq(p, LastSlash(p) + 1, Len(p))

\* The part of process_bundle that computes the descriptor of bundle b from
\* its properties: content and desktop_file.
ComputeDescriptor(b) ==
    /\ ~gen.done
    /\ HasKey(gen.property_dict, "Name")
    /\ gen' = [gen EXCEPT
                 !.doc = generate_desktop_entry(gen.property_dict),
                 !.dest_dir = DestOf(b),
                 !.desktop_file = desktop_file_of(DestOf(b), gen.property_dict),
                 !.done = TRUE]
    /\ UNCHANGED <<engine, wr, ev>>

NextDest ==
    \/ \E v \in DestNames : SetProp("Name", v)
    \/ \E k \in GenKeys \ {"Name"}, v \in GenValues : SetProp(k, v)
    \/ \E b \in BundlePaths : ComputeDescriptor(b)

SpecDest == InitGen /\ [][NextDest]_vars

\* C17: the descriptor path process_bundle computes is an immediate child
\* of the destination directory, named <Name>.desktop, whatever the value
\* of Name.
C17_DestinationContainment ==
    (gen.done /\ gen.dest_dir # <<>>) =>
        /\ Dirname(gen.desktop_file) = gen.dest_dir
        /\ Basename(gen.desktop_file) =
               ValueOf(gen.property_dict, "Name") \o <<".desktop">>

====
